---- MODULE Spec2Model ----
(***************************************************************************)
(* express-prometheus-exporter: the request-instrumentation middleware     *)
(* (src/src/index.js) and the route discovery it relies on                 *)
(* (src/src/express-utils.js).                                             *)
(*                                                                         *)
(* JavaScript strings are sequences of one-character strings, so that the  *)
(* textual conversions of the code (String.replace, path.resolve, mask     *)
(* substitution) are computed as the code computes them.                   *)
(***************************************************************************)
EXTENDS Integers, Sequences, FiniteSets, TLC

VARIABLES
  options,                     \* the middleware's options (index.js:39-43), fixed at construction
  hostApp,                     \* req.app: the host router whose internals discovery reads
  allowedRoutes,               \* index.js:44
  isAllowedRoutesInitialized,  \* index.js:45
  sampleCount,                 \* index.js:46
  requestCount,                \* number of requestCount.inc calls so far
  requestDuration,             \* number of requestDuration.observe calls so far
  last                         \* what the most recent handler did

vars == <<options, hostApp, allowedRoutes, isAllowedRoutesInitialized,
          sampleCount, requestCount, requestDuration, last>>

-----------------------------------------------------------------------------
(* Bounds of the model.                                                    *)

\* Non-scrape requests explored per behaviour of the pipeline specification.
MaxRequests == 4
\* Recorded requests (requestCount.inc calls) explored per behaviour.
MaxRecorded == 2
\* Routes the host registers after the server started serving.
MaxLateRoutes == 1
\* Handler records on one route node of the discovery specification.
MaxHandlers == 3

-----------------------------------------------------------------------------
(* Strings.                                                                *)

Digits == {"0", "1", "2", "3", "4", "5", "6", "7", "8", "9"}
Letters == {"a", "b", "c", "d", "e", "f", "g", "h", "i", "j", "k", "l", "m",
            "n", "o", "p", "q", "r", "s", "t", "u", "v", "w", "x", "y", "z"}
\* \w of a JavaScript regular expression (the lower-case part the model uses).
WordChars == Digits \cup Letters \cup {"_"}

\* s has p at position i.
HasAt(s, p, i) ==
  /\ i >= 1
  /\ i + Len(p) - 1 <= Len(s)
  /\ \A k \in 1..Len(p) : s[i + k - 1] = p[k]

\* First position of p in s, 0 when there is none (String.prototype.indexOf + 1).
IndexOf(s, p) ==
  IF \E i \in 1..Len(s) : HasAt(s, p, i)
  THEN CHOOSE i \in 1..Len(s) : HasAt(s, p, i) /\ \A j \in 1..(i - 1) : ~HasAt(s, p, j)
  ELSE 0

\* s with the occurrence of p at position i replaced by r (s itself when i = 0).
ReplaceAt(s, p, r, i) ==
  IF i = 0 THEN s
  ELSE SubSeq(s, 1, i - 1) \o r \o SubSeq(s, i + Len(p), Len(s))

\* String.prototype.replace(p, r) with a string pattern: the first occurrence only.
ReplaceFirst(s, p, r) == ReplaceAt(s, p, r, IndexOf(s, p))

\* String.prototype.replace(/p/g, r) for a literal p: every occurrence, left to right.
RECURSIVE ReplaceAll(_, _, _)
ReplaceAllFrom(s, p, r, i) ==
  IF i = 0 THEN s
  ELSE SubSeq(s, 1, i - 1) \o r \o ReplaceAll(SubSeq(s, i + Len(p), Len(s)), p, r)

ReplaceAll(s, p, r) == ReplaceAllFrom(s, p, r, IndexOf(s, p))

\* String.prototype.split("/").
RECURSIVE SplitSlash(_)
SplitSlashAt(s, i) ==
  IF i = 0 THEN <<s>>
  ELSE <<SubSeq(s, 1, i - 1)>> \o SplitSlash(SubSeq(s, i + 1, Len(s)))

SplitSlash(s) == SplitSlashAt(s, IndexOf(s, <<"/">>))

\* String.prototype.toUpperCase on the HTTP verbs of the model.
ToUpperCase(m) ==
  CASE m = "get" -> "GET"
    [] m = "post" -> "POST"
    [] m = "delete" -> "DELETE"
    [] OTHER -> m

\* The value of a decimal digit.
DigitValue(c) ==
  CASE c = "0" -> 0 [] c = "1" -> 1 [] c = "2" -> 2 [] c = "3" -> 3 [] c = "4" -> 4
    [] c = "5" -> 5 [] c = "6" -> 6 [] c = "7" -> 7 [] c = "8" -> 8 [] OTHER -> 9

RECURSIVE DecimalValue(_, _)
DecimalValue(s, acc) ==
  IF s = <<>> THEN acc ELSE DecimalValue(Tail(s), 10 * acc + DigitValue(Head(s)))

\* Number(s) of JavaScript on a string: the value of a decimal numeral, 0 for the
\* empty string, NaN for text that is no numeral.
NumberOf(s) ==
  IF \A i \in 1..Len(s) : s[i] \in Digits
  THEN [nan |-> FALSE, value |-> DecimalValue(s, 0)]
  ELSE [nan |-> TRUE, value |-> 0]

\* The string literals of the model.
sMetrics == <<"/", "m", "e", "t", "r", "i", "c", "s">>
sUsersId == <<"/", "u", "s", "e", "r", "s", "/", ":", "i", "d">>
sUsers42 == <<"/", "u", "s", "e", "r", "s", "/", "4", "2">>
sItems == <<"/", "i", "t", "e", "m", "s">>
sApi == <<"/", "a", "p", "i">>
sApiItems == <<"/", "a", "p", "i", "/", "i", "t", "e", "m", "s">>
sLate == <<"/", "l", "a", "t", "e">>
sV1 == <<"/", "v", "1">>
sAdm == <<"/", "a", "d", "m">>
s512 == <<"5", "1", "2">>
sAbc == <<"a", "b", "c">>
\* process.cwd() of the serving process.
Cwd == <<"/", "s", "r", "v">>
\* The placeholder token that masked text is replaced by.
Placeholder == <<"#", "v", "a", "l">>

-----------------------------------------------------------------------------
(* express-utils.js                                                        *)

\* RegExp.prototype.toString() of the pattern express compiles for a mount
\* path p (end: false, case-insensitive): /^<p with each / escaped>\/?(?=\/|$)/i
RegexpOfMount(p) ==
  <<"/", "^">> \o ReplaceAll(p, <<"/">>, <<"\\", "/">>)
    \o <<"\\", "/", "?", "(", "?", "=", "\\", "/", "|", "$", ")", "/", "i">>

getPathFromRegex(regexp) ==
  ReplaceAll(
    ReplaceFirst(
      ReplaceFirst(regexp, <<"/", "^">>, <<>>),
      <<"?", "(", "?", "=", "\\", "/", "|", "$", ")", "/", "i">>, <<>>),
    <<"\\", "/">>, <<"/">>)

\* path.resolve(p) of Node (POSIX): an empty or relative p is resolved against
\* process.cwd(); "", "." and ".." segments collapse; the result is absolute
\* and has no trailing slash.
NormalizeSegment(seg, acc) ==
  IF seg = <<>> \/ seg = <<".">> THEN acc
  ELSE IF seg = <<".", ".">>
  THEN (IF acc = <<>> THEN acc ELSE SubSeq(acc, 1, Len(acc) - 1))
  ELSE Append(acc, seg)

RECURSIVE NormalizeSegments(_, _)
NormalizeSegments(segs, acc) ==
  IF segs = <<>> THEN acc
  ELSE NormalizeSegments(Tail(segs), NormalizeSegment(Head(segs), acc))

RECURSIVE JoinSegments(_)
JoinSegments(segs) ==
  IF segs = <<>> THEN <<>>
  ELSE <<"/">> \o Head(segs) \o JoinSegments(Tail(segs))

AbsoluteOf(segs) == IF segs = <<>> THEN <<"/">> ELSE JoinSegments(segs)

pathResolve(p) ==
  AbsoluteOf(NormalizeSegments(
    SplitSlash(IF p = <<>> THEN Cwd
               ELSE IF Head(p) = "/" THEN p
               ELSE Cwd \o <<"/">> \o p),
    <<>>))

\* The layers of a router stack, as express builds them.
\* A handler record of a route: its verb in lower case ("" when the handler has
\* none, as for route.all) and its path ("" when it has none).
Handler(method, path) == [method |-> method, path |-> path]

\* A layer that holds a route: layer.route = {path, stack: handlers}.
RouteLayer(path, handlers) ==
  [kind |-> "route", path |-> path, regexp |-> <<>>, handlers |-> handlers, stack |-> <<>>]
\* A layer that mounts a sub-router: layer.handle.stack = stack, layer.regexp the mount pattern.
RouterLayer(mount, stack) ==
  [kind |-> "router", path |-> <<>>, regexp |-> RegexpOfMount(mount), handlers |-> <<>>, stack |-> stack]
\* A plain middleware layer: layer.handle is a function without a stack, no route.
MiddlewareLayer ==
  [kind |-> "middleware", path |-> <<>>, regexp |-> <<>>, handlers |-> <<>>, stack |-> <<>>]
\* A stack entry without a handle: reading stack.handle.stack raises a TypeError.
BrokenLayer ==
  [kind |-> "nohandle", path |-> <<>>, regexp |-> <<>>, handlers |-> <<>>, stack |-> <<>>]

\* An entry of the flattened stack: the layer and the routerPath spread onto it
\* ("" when the layer was not copied out of a sub-router).
StackEntry(routerPath, layer) == [routerPath |-> routerPath, layer |-> layer]

Returned(v) == [thrown |-> FALSE, value |-> v]
Thrown == [thrown |-> TRUE, value |-> <<>>]

\* stack.handle.stack.map((st) => ({ routerPath, ...st }))
SpreadRouterPath(routerPath, children) ==
  [i \in 1..Len(children) |-> StackEntry(routerPath, children[i])]

combineStacks(acc, stack) ==
  IF stack.kind = "nohandle" THEN Thrown
  ELSE IF stack.kind = "router"
  THEN Returned(acc \o SpreadRouterPath(getPathFromRegex(stack.regexp), stack.stack))
  ELSE Returned(Append(acc, StackEntry(<<>>, stack)))

\* stack.reduce(combineStacks, []): an error of a step propagates.
RECURSIVE ReduceCombine(_, _)
ReduceStep(step, rest) ==
  IF step.thrown THEN Thrown ELSE ReduceCombine(step.value, rest)

ReduceCombine(acc, stack) ==
  IF stack = <<>> THEN Returned(acc)
  ELSE ReduceStep(combineStacks(acc, Head(stack)), Tail(stack))

\* Object.keys(app.routes).reduce(...).map(...): the routes of every verb, in key
\* order, each wrapped as {route: {stack: [route]}}.
RECURSIVE Express3Stacks(_)
Express3Stacks(groups) ==
  IF groups = <<>> THEN <<>>
  ELSE [i \in 1..Len(Head(groups)) |->
          StackEntry(<<>>, RouteLayer(<<>>, <<Head(groups)[i]>>))]
       \o Express3Stacks(Tail(groups))

\* try { ... } catch (err) { } followed by return []
Caught(r) == IF r.thrown THEN Returned(<<>>) ELSE r

getStacks(app) ==
  IF app.throwsOn = "routes" THEN Thrown
  ELSE IF app.routes.present THEN Returned(Express3Stacks(app.routes.stack))
  ELSE IF app.throwsOn = "_router" THEN Thrown
  ELSE IF app._router.present THEN ReduceCombine(<<>>, app._router.stack)
  ELSE IF app.throwsOn = "stack" THEN Thrown
  ELSE IF app.stack.present THEN ReduceCombine(<<>>, app.stack.stack)
  ELSE IF app.throwsOn = "router" THEN Returned(<<>>)
  ELSE IF app.router.present THEN Caught(ReduceCombine(<<>>, app.router.stack))
  ELSE Returned(<<>>)

\* The inner loop of extractRoutes over one route's handlers; logged is routeLogged.
RECURSIVE RouteEntries(_, _, _)
\* The step of the loop without routeLogged[method] = true.
RouteEntryUnlogged(stack, route, method, rest, logged) ==
  IF method \notin logged /\ method # ""
  THEN <<[method |-> method,
          path |-> pathResolve(stack.routerPath \o stack.layer.path \o route.path)]>>
       \o RouteEntries(stack, rest, logged)
  ELSE RouteEntries(stack, rest, logged)

RouteEntry(stack, route, method, rest, logged) ==
  IF method \notin logged /\ method # ""
  THEN <<[method |-> method,
          path |-> pathResolve(stack.routerPath \o stack.layer.path \o route.path)]>>
       \o RouteEntries(stack, rest, logged \cup {method})
  ELSE RouteEntries(stack, rest, logged)

RouteEntries(stack, handlers, logged) ==
  IF handlers = <<>> THEN <<>>
  ELSE RouteEntry(stack, Head(handlers), ToUpperCase(Head(handlers).method),
                  Tail(handlers), logged)

RECURSIVE StacksEntries(_)
StacksEntries(stacks) ==
  IF stacks = <<>> THEN <<>>
  ELSE (IF Head(stacks).layer.kind = "route"
        THEN RouteEntries(Head(stacks), Head(stacks).layer.handlers, {})
        ELSE <<>>)
       \o StacksEntries(Tail(stacks))

RoutesOf(stacks) ==
  IF stacks.thrown THEN Thrown ELSE Returned(StacksEntries(stacks.value))

extractRoutes(app) == RoutesOf(getStacks(app))

-----------------------------------------------------------------------------
(* ./normalizers (required at index.js:12)                                  *)

\* Mask patterns are named by what they match:
\*   "digits"  /\d+/             a run of decimal digits (a user-supplied mask)
\*   "param"   /:\w+(?:_\w+)*/   expressPathParameterRegex, index.js:14
RECURSIVE RunLength(_, _, _)
RunLength(s, i, chars) ==
  IF i <= Len(s) /\ s[i] \in chars THEN 1 + RunLength(s, i + 1, chars) ELSE 0

\* Length of the match of mask that starts at position i of s, 0 when none does.
MatchLength(s, i, mask) ==
  CASE mask = "digits" -> RunLength(s, i, Digits)
    [] mask = "param" ->
         IF s[i] = ":" /\ RunLength(s, i + 1, WordChars) > 0
         THEN 1 + RunLength(s, i + 1, WordChars)
         ELSE 0
    [] OTHER -> 0

\* Every leftmost non-overlapping match of mask in s replaced by the placeholder.
RECURSIVE ApplyMask(_, _, _)
ApplyMaskAt(s, i, mask, n) ==
  IF n > 0 THEN Placeholder \o ApplyMask(s, i + n, mask)
  ELSE <<s[i]>> \o ApplyMask(s, i + 1, mask)

ApplyMask(s, i, mask) ==
  IF i > Len(s) THEN <<>> ELSE ApplyMaskAt(s, i, mask, MatchLength(s, i, mask))

RECURSIVE normalizePath(_, _)
normalizePath(path, masks) ==
  IF masks = <<>> THEN path
  ELSE normalizePath(ApplyMask(path, 1, Head(masks)), Tail(masks))

normalizeStatusCode(status) ==
  CASE status >= 200 /\ status < 300 -> "2xx"
    [] status >= 300 /\ status < 400 -> "3xx"
    [] status >= 400 /\ status < 500 -> "4xx"
    [] OTHER -> "5xx"

\* Number.prototype.toString on the status codes of the model.
StatusToString(status) ==
  CASE status = 200 -> "200"
    [] status = 302 -> "302"
    [] status = 404 -> "404"
    [] OTHER -> "500"

-----------------------------------------------------------------------------
(* index.js                                                                *)

samplePercent == 100
expressPathParameterRegex == "param"

\* isSampled with a strict comparison.
isSampledStrict(count, sampleRate) == count * 100 < sampleRate * samplePercent

\* options.sampleRate is held in hundredths (20 for 0.2): sampleCount / samplePercent
\* and the literal k/100 are the same double, so the comparison is exact.
isSampled(count, sampleRate) == count * 100 <= sampleRate * samplePercent

\* isPathAllowed that compares the path alone.
isPathAllowedAnyVerb(routes, method, path) ==
  IF Len(routes) = 0 THEN FALSE
  ELSE \E i \in 1..Len(routes) : routes[i].path = path

\* isPathAllowed that lets every path pass while the catalog is empty.
isPathAllowedOpen(routes, method, path) ==
  IF Len(routes) = 0 THEN TRUE
  ELSE \E i \in 1..Len(routes) : routes[i].method = method /\ routes[i].path = path

isPathAllowed(routes, method, path) ==
  IF Len(routes) = 0 THEN FALSE
  ELSE \E i \in 1..Len(routes) : routes[i].method = method /\ routes[i].path = path

\* The entries initializeAllowedRoutes pushes: extractRoutes(req.app), each path
\* normalized with the extra masks followed by expressPathParameterRegex.
normalizeRoutes(found, opts) ==
  IF found.thrown THEN Thrown
  ELSE Returned([i \in 1..Len(found.value) |->
         [method |-> found.value[i].method,
          path |-> normalizePath(found.value[i].path,
                                 Append(opts.extraMasks, expressPathParameterRegex))]])

normalizedAllowedRoutes(app, opts) == normalizeRoutes(extractRoutes(app), opts)

\* initializeAllowedRoutes with the flag set before the routes are extracted.
pushAllowedRoutesFlagFirst(st, found) ==
  IF found.thrown
  THEN [thrown |-> TRUE, st |-> [st EXCEPT !.isAllowedRoutesInitialized = TRUE]]
  ELSE [thrown |-> FALSE,
        st |-> [st EXCEPT !.allowedRoutes = @ \o found.value,
                          !.isAllowedRoutesInitialized = TRUE]]

\* allowedRoutes.push(...) and the flag, unless extractRoutes raised.
pushAllowedRoutes(st, found) ==
  IF found.thrown THEN [thrown |-> TRUE, st |-> st]
  ELSE [thrown |-> FALSE,
        st |-> [st EXCEPT !.allowedRoutes = @ \o found.value,
                          !.isAllowedRoutesInitialized = TRUE]]

\* initializeAllowedRoutes(req) on state st: an error of extractRoutes leaves the
\* routes and the flag as they were and propagates.
initializeAllowedRoutes(st, app, opts) ==
  pushAllowedRoutes(st, normalizedAllowedRoutes(app, opts))

\* An advance of the sample counter that wraps before the counter reaches 100.
advanceModulo(count) == (count + 1) % samplePercent

\* The advance of the sample counter, index.js:108.
advance(count) == IF count = samplePercent THEN 0 ELSE count + 1

\* What a handler leaves in `last` when it does nothing. The fields: the request;
\* sampled: it passed the sample gate; discovered: initializeAllowedRoutes was
\* called; checked: isPathAllowed was called; thrown: the call that raised;
\* inc, observe: the arguments of the calls to requestCount.inc and
\* requestDuration.observe; auth: the outcome of the authenticate hook when it
\* was called; response: what the scrape route answered; hook: the outcome of
\* the transformLabels hook when it was called; reqHeader, resHeader: the
\* Content-Length headers of the request and of the response; requestLength,
\* responseLength: the arguments of the calls to requestLength.observe and
\* responseLength.observe.
Quiet(req) ==
  [kind |-> "request", url |-> req.originalUrl, method |-> req.method,
   statusCode |-> req.statusCode, sampled |-> FALSE, discovered |-> FALSE,
   checked |-> FALSE, thrown |-> "none", inc |-> <<>>, observe |-> <<>>,
   auth |-> "none", response |-> "none", hook |-> "none",
   reqHeader |-> req.reqLength, resHeader |-> req.resLength,
   requestLength |-> <<>>, responseLength |-> <<>>]

\* The state the callback reads and writes.
State ==
  [sampleCount |-> sampleCount, allowedRoutes |-> allowedRoutes,
   isAllowedRoutesInitialized |-> isAllowedRoutesInitialized,
   requestCount |-> requestCount, requestDuration |-> requestDuration]

\* The status label, index.js:125-127.
statusLabel(opts, req) ==
  IF opts.normalizeStatus THEN normalizeStatusCode(req.statusCode)
  ELSE StatusToString(req.statusCode)

\* index.js:129-137 : the labels, the transform hook, the two recordings.
\* req.transform is what the user's hook does on this call.
\* req.get('Content-Length'), res.get('Content-Length'): undefined when the
\* header is absent, its text otherwise.
NoHeader == [present |-> FALSE, text |-> <<>>]
Header(text) == [present |-> TRUE, text |-> text]

\* if (reqLength): undefined and the empty string are falsy.
Truthy(header) == header.present /\ header.text # <<>>

\* index.js:140-145 and 148-153: the size histogram is observed with
\* Number(header) when it has buckets and the header is truthy.
observeLength(buckets, header, labels, observed) ==
  IF Len(buckets) # 0 /\ Truthy(header)
  THEN Append(observed, [labels |-> labels, value |-> NumberOf(header.text)])
  ELSE observed

\* requestCount.inc(labels); requestDuration.observe(labels, time / 1000); the
\* two size histograms.
observeRequest(st, opts, req, labels, trace) ==
  [st |-> [st EXCEPT !.requestCount = @ + 1, !.requestDuration = @ + 1],
   trace |-> [trace EXCEPT
                !.inc = Append(@, labels),
                !.observe = Append(@, [labels |-> labels, ms |-> req.time, per |-> 1000]),
                !.requestLength =
                   observeLength(opts.requestLengthBuckets, req.reqLength, labels, @),
                !.responseLength =
                   observeLength(opts.responseLengthBuckets, req.resLength, labels, @)]]

\* options.transformLabels(labels, req, res), when it is a function: the hook
\* raises, or sets the custom label.
transformed(st, opts, req, labels, trace) ==
  IF opts.transformLabels = "function"
  THEN (IF req.transform = "throws"
        THEN [st |-> st,
              trace |-> [trace EXCEPT !.thrown = "transformLabels", !.hook = "throws"]]
        ELSE observeRequest(st, opts, req, [labels EXCEPT !.custom = "set"],
                            [trace EXCEPT !.hook = "returns"]))
  ELSE observeRequest(st, opts, req, labels, trace)

record(st, opts, req, path, trace) ==
  transformed(st, opts, req,
              [route |-> path, method |-> req.method,
               status |-> statusLabel(opts, req), custom |-> ""],
              trace)

\* index.js:122 on the state discovery left.
checkPath(init, opts, req, path, trace) ==
  IF init.thrown
  THEN [st |-> init.st, trace |-> [trace EXCEPT !.thrown = "extractRoutes"]]
  ELSE IF ~isPathAllowed(init.st.allowedRoutes, req.method, path)
  THEN [st |-> init.st, trace |-> [trace EXCEPT !.checked = TRUE]]
  ELSE record(init.st, opts, req, path, [trace EXCEPT !.checked = TRUE])

\* enforce that runs discovery whatever the flag says.
enforceAlways(st, opts, app, req, path, trace) ==
  IF opts.collectAnyPaths THEN record(st, opts, req, path, trace)
  ELSE checkPath(initializeAllowedRoutes(st, app, opts), opts, req, path,
                 [trace EXCEPT !.discovered = TRUE])

\* index.js:117-123 : the catalog check, with the lazy discovery.
enforce(st, opts, app, req, path, trace) ==
  IF opts.collectAnyPaths THEN record(st, opts, req, path, trace)
  ELSE IF ~st.isAllowedRoutesInitialized
  THEN checkPath(initializeAllowedRoutes(st, app, opts), opts, req, path,
                 [trace EXCEPT !.discovered = TRUE])
  ELSE checkPath([thrown |-> FALSE, st |-> st], opts, req, path, trace)

\* The callback with the discovery pass run for every request on an
\* uninitialized catalog, before the sample gate is consulted.
sampleEager(st, opts, app, req) ==
  IF ~isSampled(st.sampleCount, opts.sampleRate)
  THEN (IF ~opts.collectAnyPaths /\ ~st.isAllowedRoutesInitialized
        THEN [st |-> initializeAllowedRoutes(st, app, opts).st,
              trace |-> [Quiet(req) EXCEPT !.discovered = TRUE]]
        ELSE [st |-> st, trace |-> Quiet(req)])
  ELSE enforce(st, opts, app, req,
               normalizePath(req.originalUrl, opts.extraMasks),
               [Quiet(req) EXCEPT !.sampled = TRUE])

\* The callback counting a request that the sample gate rejects.
sampleCountsRejected(st, opts, app, req) ==
  IF ~isSampled(st.sampleCount, opts.sampleRate)
  THEN [st |-> [st EXCEPT !.requestCount = @ + 1], trace |-> Quiet(req)]
  ELSE enforce(st, opts, app, req,
               normalizePath(req.originalUrl, opts.extraMasks),
               [Quiet(req) EXCEPT !.sampled = TRUE])

\* The callback of ResponseTime, index.js:103-154, on state st.
\* index.js:110-154 on the state with the counter advanced.
sample(st, opts, app, req) ==
  IF ~isSampled(st.sampleCount, opts.sampleRate)
  THEN [st |-> st, trace |-> Quiet(req)]
  ELSE enforce(st, opts, app, req,
               normalizePath(req.originalUrl, opts.extraMasks),
               [Quiet(req) EXCEPT !.sampled = TRUE])

\* recordResponse without the early return for the scrape endpoint's path.
recordResponseCounted(st, opts, app, req) ==
  sample([st EXCEPT !.sampleCount = advance(st.sampleCount)], opts, app, req)

recordResponse(st, opts, app, req) ==
  IF req.originalUrl = opts.metricsPath THEN [st |-> st, trace |-> Quiet(req)]
  ELSE sample([st EXCEPT !.sampleCount = advance(st.sampleCount)], opts, app, req)

-----------------------------------------------------------------------------
(* The host applications the middleware is mounted in (req.app).            *)

Absent == [present |-> FALSE, stack |-> <<>>]
Present(stack) == [present |-> TRUE, stack |-> stack]

\* throwsOn names the property of the app whose read raises ("none": no read does).
App(throwsOn, routes, router4, stack, router5) ==
  [throwsOn |-> throwsOn, routes |-> routes, _router |-> router4,
   stack |-> stack, router |-> router5, lateRoutes |-> 0]

UsersRoute == RouteLayer(sUsersId, <<Handler("get", <<>>), Handler("post", <<>>)>>)
ApiRouter == RouterLayer(sApi, <<RouteLayer(sItems, <<Handler("get", <<>>)>>)>>)
LateRoute == RouteLayer(sLate, <<Handler("get", <<>>)>>)

\* Express 4: app._router.stack; reading app.router raises (it is deprecated).
Express4App == App("router", Absent, Present(<<MiddlewareLayer, UsersRoute, ApiRouter>>), Absent, Absent)
\* Express 3: app.routes = {get: [...], post: [...]}.
Express3App ==
  App("none", Present(<<<<Handler("get", sUsersId)>>, <<Handler("post", sUsersId)>>>>),
      Absent, Absent, Absent)
\* An express.Router(): router.stack.
RouterApp == App("none", Absent, Absent, Present(<<UsersRoute>>), Absent)
\* Express 5: app.router.stack.
Express5App == App("none", Absent, Absent, Absent, Present(<<MiddlewareLayer, UsersRoute, ApiRouter>>))
\* An Express 4 app with no route registered yet.
EmptyApp == App("router", Absent, Present(<<MiddlewareLayer>>), Absent, Absent)
\* An app of none of the four shapes whose app.router getter raises.
ThrowingRouterApp == App("router", Absent, Absent, Absent, Absent)
\* Apps whose internals raise while discovery reads them.
ThrowingRoutesApp == App("routes", Absent, Present(<<UsersRoute>>), Absent, Absent)
Throwing4App == App("_router", Absent, Present(<<UsersRoute>>), Absent, Absent)
ThrowingStackApp == App("stack", Absent, Absent, Present(<<UsersRoute>>), Absent)
Broken4App == App("none", Absent, Present(<<UsersRoute, BrokenLayer>>), Absent, Absent)
Broken5App == App("none", Absent, Absent, Absent, Present(<<UsersRoute, BrokenLayer>>))

HealthyApps == {Express4App, Express3App, RouterApp, Express5App, EmptyApp}
FailingApps == {ThrowingRouterApp, ThrowingRoutesApp, Throwing4App, ThrowingStackApp,
                Broken4App, Broken5App}

\* Routers mounted in routers: the route /items with GET and POST handlers under
\* the mounts, outermost first (app.use('/api', r1); r1.use('/v1', r2); ...).
ItemsRoute == RouteLayer(sItems, <<Handler("get", <<>>), Handler("post", <<>>)>>)

RECURSIVE NestedUnder(_)
NestedUnder(mounts) ==
  IF mounts = <<>> THEN <<ItemsRoute>>
  ELSE <<RouterLayer(Head(mounts), NestedUnder(Tail(mounts)))>>

MountPath == <<sApi, sV1, sAdm>>

Nested4App(depth) ==
  App("router", Absent,
      Present(<<MiddlewareLayer>> \o NestedUnder(SubSeq(MountPath, 1, depth))),
      Absent, Absent)
Nested5App(depth) ==
  App("none", Absent, Absent, Absent,
      Present(<<MiddlewareLayer>> \o NestedUnder(SubSeq(MountPath, 1, depth))))

NestedApps == {Nested4App(d) : d \in 0..Len(MountPath)}
              \cup {Nested5App(d) : d \in 0..Len(MountPath)}

\* One route node with any sequence of handler records (a verb each, or none as
\* for route.all), followed by a second node for the same path.
HandlerVerbs == {"get", "post", ""}
HandlerSequences == UNION {[1..n -> HandlerVerbs] : n \in 0..MaxHandlers}

VerbRoute(verbs) == RouteLayer(sItems, [i \in 1..Len(verbs) |-> Handler(verbs[i], <<>>)])
VerbApp(verbs) ==
  App("router", Absent,
      Present(<<VerbRoute(verbs), RouteLayer(sItems, <<Handler("get", <<>>)>>)>>),
      Absent, Absent)
VerbApps == {VerbApp(verbs) : verbs \in HandlerSequences}

\* The routes of Express4App registered in the opposite order.
Reversed4App == App("router", Absent, Present(<<ApiRouter, UsersRoute, MiddlewareLayer>>), Absent, Absent)

\* app.get('/late', ...) on the host after it started serving: one more route
\* layer at the end of the stack the app keeps.
registerLate(app) ==
  LET grown == [app EXCEPT !.lateRoutes = @ + 1]
  IN  IF app.routes.present
      THEN [grown EXCEPT !.routes.stack[1] = Append(@, Handler("get", sLate))]
      ELSE IF app._router.present THEN [grown EXCEPT !._router.stack = Append(@, LateRoute)]
      ELSE IF app.stack.present THEN [grown EXCEPT !.stack.stack = Append(@, LateRoute)]
      ELSE [grown EXCEPT !.router.stack = Append(@, LateRoute)]

-----------------------------------------------------------------------------
(* Options and requests.                                                   *)

defaultOptions ==
  [metricsPath |-> sMetrics, authenticate |-> "null", collectAnyPaths |-> FALSE,
   extraMasks |-> <<>>, transformLabels |-> "null", normalizeStatus |-> TRUE,
   sampleRate |-> 100, requestLengthBuckets |-> <<>>, responseLengthBuckets |-> <<>>]

Urls == {sMetrics, sUsers42, sApiItems, sLate}
Methods == {"GET", "POST"}
StatusCodes == {200, 404}
Times == {250}
TransformOutcomes == {"returns", "throws"}
AuthOutcomes == {"truthy", "falsy", "throws"}

Requests ==
  [originalUrl : Urls, method : Methods, statusCode : StatusCodes, time : Times,
   transform : TransformOutcomes, reqLength : {NoHeader}, resLength : {NoHeader}]

\* Requests and responses with and without a Content-Length header, numeric or not.
Headers == {NoHeader, Header(s512), Header(sAbc)}

SizedRequests ==
  [originalUrl : {sApiItems, sLate}, method : {"GET"}, statusCode : {200},
   time : Times, transform : {"returns"}, reqLength : Headers, resLength : Headers]

Idle ==
  [kind |-> "none", url |-> <<>>, method |-> "", statusCode |-> 0, sampled |-> FALSE,
   discovered |-> FALSE, checked |-> FALSE, thrown |-> "none", inc |-> <<>>,
   observe |-> <<>>, auth |-> "none", response |-> "none", hook |-> "none",
   reqHeader |-> NoHeader, resHeader |-> NoHeader,
   requestLength |-> <<>>, responseLength |-> <<>>]

-----------------------------------------------------------------------------
(* The state machine.                                                      *)

Construct(opts, app) ==
  /\ options = opts
  /\ hostApp = app
  /\ allowedRoutes = <<>>
  /\ isAllowedRoutesInitialized = FALSE
  /\ sampleCount = 0
  /\ requestCount = 0
  /\ requestDuration = 0
  /\ last = Idle

\* The options the pipeline specification explores: the sample rate, the
\* catalog enforcement, the masks and the label transform in every combination,
\* and the exact status label with an authenticate hook.
PipelineOptions ==
  {[defaultOptions EXCEPT !.sampleRate = r, !.collectAnyPaths = c, !.extraMasks = m,
                          !.transformLabels = t] :
     r \in {2, 100}, c \in BOOLEAN, m \in {<<>>, <<"digits">>}, t \in {"null", "function"}}
  \cup
  {[defaultOptions EXCEPT !.sampleRate = r, !.collectAnyPaths = c,
                          !.normalizeStatus = FALSE, !.authenticate = "function"] :
     r \in {2, 100}, c \in BOOLEAN}

Init == \E opts \in PipelineOptions, app \in HealthyApps \cup FailingApps : Construct(opts, app)

\* The state a handler leaves: what the callback wrote, and the response.
Commit(out, kind, auth, response) ==
  /\ sampleCount' = out.st.sampleCount
  /\ allowedRoutes' = out.st.allowedRoutes
  /\ isAllowedRoutesInitialized' = out.st.isAllowedRoutesInitialized
  /\ requestCount' = out.st.requestCount
  /\ requestDuration' = out.st.requestDuration
  /\ last' = [out.trace EXCEPT !.kind = kind, !.auth = auth, !.response = response]
  /\ UNCHANGED <<options, hostApp>>

\* A request that the scrape route does not serve passes the middleware: the
\* callback of ResponseTime runs once, when the response headers are written.
Serve(limit, req) ==
  /\ ~(req.originalUrl = options.metricsPath /\ req.method = "GET")
  /\ sampleCount < limit
  /\ requestCount < MaxRecorded
  /\ Commit(recordResponse(State, options, hostApp, req), "request", "none", "none")

\* The scrape route passing control on only when the hook returned false: an
\* error of the hook, which leaves result null, sends the payload.
metricsRouteOnlyFalse(opts, outcome) ==
  IF opts.authenticate = "function"
  THEN (IF outcome = "falsy" THEN "next" ELSE "payload")
  ELSE "payload"

\* The scrape route, index.js:172-190, on the outcome of the authenticate hook.
metricsRoute(opts, outcome) ==
  IF opts.authenticate = "function"
  THEN (IF outcome = "truthy" THEN "payload" ELSE "next")
  ELSE "payload"

\* GET metricsPath: the route answers, and the callback of ResponseTime runs on
\* the response as on any other.
ScrapeRequest(response) ==
  [originalUrl |-> options.metricsPath, method |-> "GET",
   statusCode |-> IF response = "payload" THEN 200 ELSE 404,
   time |-> 250, transform |-> "returns", reqLength |-> NoHeader, resLength |-> NoHeader]

Answer(auth, response) ==
  Commit(recordResponse(State, options, hostApp, ScrapeRequest(response)),
         "scrape", auth, response)

Scrape(outcome) ==
  Answer(IF options.authenticate = "function" THEN outcome ELSE "none",
         metricsRoute(options, outcome))

\* The host registers a route after the server started serving.
RegisterRoute ==
  /\ hostApp.lateRoutes < MaxLateRoutes
  /\ hostApp.routes.present \/ hostApp._router.present \/ hostApp.stack.present
       \/ hostApp.router.present
  /\ hostApp' = registerLate(hostApp)
  /\ UNCHANGED <<options, allowedRoutes, isAllowedRoutesInitialized, sampleCount,
                 requestCount, requestDuration, last>>

Next ==
  \/ \E req \in Requests : Serve(MaxRequests, req)
  \/ \E outcome \in AuthOutcomes : Scrape(outcome)
  \/ RegisterRoute

Spec == Init /\ [][Next]_vars

\* The sample gate over whole cycles of the counter: every sample rate of the
\* claims, no bound on the number of requests, on a host whose routes discovery
\* finds and on one whose internals raise.
GateOptions == {[defaultOptions EXCEPT !.sampleRate = r] : r \in {0, 20, 50, 100}}

InitGate ==
  \E opts \in GateOptions, app \in {Express4App, ThrowingRoutesApp} : Construct(opts, app)

NextGate ==
  \/ \E req \in Requests : Serve(samplePercent + 1, req)
  \/ \E outcome \in AuthOutcomes : Scrape(outcome)
  \/ RegisterRoute

SpecGate == InitGate /\ [][NextGate]_vars

\* Route discovery and the catalog check: routers nested in routers, route nodes
\* with every sequence of handler records, routes registered in either order;
\* every request is admitted and checked against the catalog.
DiscoveryApps == NestedApps \cup VerbApps \cup {Express4App, Reversed4App}

DiscoveryRequests ==
  [originalUrl : {sItems, sApiItems, sUsers42, sLate}, method : Methods,
   statusCode : {200}, time : Times, transform : {"returns"},
   reqLength : {NoHeader}, resLength : {NoHeader}]

InitDiscovery == \E app \in DiscoveryApps : Construct(defaultOptions, app)

NextDiscovery ==
  \/ \E req \in DiscoveryRequests : Serve(MaxRequests, req)
  \/ \E outcome \in AuthOutcomes : Scrape(outcome)

SpecDiscovery == InitDiscovery /\ [][NextDiscovery]_vars

\* The size histograms: every combination of configured and empty bucket
\* lists, with and without catalog enforcement.
SizeBuckets == {<<>>, <<100, 1000>>}

SizeOptions ==
  {[defaultOptions EXCEPT !.requestLengthBuckets = q, !.responseLengthBuckets = p,
                          !.collectAnyPaths = c] :
     q \in SizeBuckets, p \in SizeBuckets, c \in BOOLEAN}

InitSizes == \E opts \in SizeOptions, app \in {Express4App} : Construct(opts, app)

NextSizes ==
  \/ \E req \in SizedRequests : Serve(MaxRequests, req)
  \/ \E outcome \in AuthOutcomes : Scrape(outcome)
  \/ RegisterRoute

SpecSizes == InitSizes /\ [][NextSizes]_vars

-----------------------------------------------------------------------------
(* Properties.                                                             *)

\* The most recent handler was the callback on a request that is not the scrape
\* endpoint's: the sample gate was evaluated for it.
GateEvaluated == last.kind = "request" /\ last.url # options.metricsPath

\* The path label of the most recent request, index.js:115.
LastPath == normalizePath(last.url, options.extraMasks)

\* The labels index.js:129 builds for the most recent request.
LastLabels ==
  [route |-> LastPath, method |-> last.method,
   status |-> IF options.normalizeStatus THEN normalizeStatusCode(last.statusCode)
              ELSE StatusToString(last.statusCode)]

CoreLabels(l) == [route |-> l.route, method |-> l.method, status |-> l.status]

\* The most recent handler recorded exactly once, with the labels of its request.
RecordedOnce ==
  /\ Len(last.inc) = 1
  /\ Len(last.observe) = 1
  /\ CoreLabels(last.inc[1]) = LastLabels
  /\ CoreLabels(last.observe[1].labels) = LastLabels

RecordedNothing == last.inc = <<>> /\ last.observe = <<>>

\* C1: with sampleRate = 0.0 no request passes the sample gate: no discovery is
\* triggered and no metric is recorded, however many requests were served.
C1_NoneAdmitted ==
  options.sampleRate = 0 =>
    /\ ~last.sampled
    /\ ~isAllowedRoutesInitialized
    /\ requestCount = 0
    /\ requestDuration = 0

\* C2: with sampleRate = 1.0 every gate evaluation admits the request, whatever
\* the value of the counter.
C2_AllAdmitted == (options.sampleRate = 100 /\ GateEvaluated) => last.sampled

\* A request admitted at the largest value the counter takes.
C2_Witness ==
  /\ options.sampleRate = 100
  /\ GateEvaluated
  /\ last.sampled
  /\ sampleCount = samplePercent

\* C3: for sampleRate = k/100 the gate is periodic with a cycle of 100 gate
\* evaluations: the counter values of a cycle are 1..100, the requests at 1..k
\* are admitted and those at k+1..100 are rejected, in every cycle.
C3_PeriodicAdmission ==
  (options.sampleRate \in {20, 50} /\ GateEvaluated) =>
    /\ sampleCount \in 1..samplePercent
    /\ last.sampled <=> sampleCount \in 1..options.sampleRate

\* C4: a request to the scrape endpoint path (a step of a handler, which leaves
\* the host as it is, on a request whose originalUrl is metricsPath) leaves the
\* sample counter, the catalog and the metrics as they were, and the request
\* that follows is admitted or rejected as it would have been without it.
C4_ScrapeIsInvisible ==
  [][(hostApp' = hostApp /\ last'.kind # "none" /\ last'.url = options.metricsPath) =>
       /\ UNCHANGED <<sampleCount, allowedRoutes, isAllowedRoutesInitialized,
                      requestCount, requestDuration>>
       /\ isSampled(advance(sampleCount'), options'.sampleRate)
            = isSampled(advance(sampleCount), options.sampleRate)]_vars

\* A scrape served between recorded requests.
C4_Witness ==
  /\ last.kind = "scrape"
  /\ last.url = options.metricsPath
  /\ sampleCount > 0
  /\ requestCount > 0

\* C5: with catalog enforcement and sampleRate = 1.0, a request whose method and
\* normalized path are a catalog entry is recorded exactly once (one counter
\* increment, one duration observation, labels route, method, status of the
\* request), and a request that is no catalog entry records nothing.
C5_EndToEnd ==
  (~options.collectAnyPaths /\ options.sampleRate = 100 /\ GateEvaluated) =>
    IF isPathAllowed(allowedRoutes, last.method, LastPath)
    THEN RecordedOnce
    ELSE RecordedNothing

\* C5 in every configuration whose label transform does not raise.
C5_EndToEndUnlessTransformRaises ==
  (~options.collectAnyPaths /\ options.sampleRate = 100 /\ GateEvaluated
     /\ last.thrown # "transformLabels") =>
    IF isPathAllowed(allowedRoutes, last.method, LastPath)
    THEN RecordedOnce
    ELSE RecordedNothing

\* C6: once the catalog is initialized the flag stays true and allowedRoutes stays
\* what the one discovery pass produced, whatever is served or registered later.
C6_CatalogFrozen ==
  [][/\ isAllowedRoutesInitialized =>
          isAllowedRoutesInitialized' /\ allowedRoutes' = allowedRoutes
     /\ (~isAllowedRoutesInitialized /\ isAllowedRoutesInitialized') =>
          allowedRoutes' = normalizedAllowedRoutes(hostApp, options).value]_vars

\* A request for a route the host registered after discovery: it passed the gate,
\* discovery did not run again, and the catalog does not hold the route.
C6_Witness ==
  /\ isAllowedRoutesInitialized
  /\ allowedRoutes # <<>>
  /\ hostApp.lateRoutes > 0
  /\ last.url = sLate /\ last.method = "GET"
  /\ last.sampled /\ last.checked /\ ~last.discovered
  /\ isPathAllowed(normalizedAllowedRoutes(hostApp, options).value, "GET", sLate)
  /\ ~isPathAllowed(allowedRoutes, "GET", sLate)

\* C7: with catalog enforcement and an empty catalog every request is rejected
\* by the catalog check and nothing is ever recorded.
C7_FailClosed ==
  (~options.collectAnyPaths /\ allowedRoutes = <<>>) =>
    /\ requestCount = 0
    /\ requestDuration = 0
    /\ RecordedNothing

\* A request that passed the gate and was rejected by the check of an empty,
\* discovered catalog, although the host serves a route by now.
C7_Witness ==
  /\ ~options.collectAnyPaths
  /\ isAllowedRoutesInitialized
  /\ allowedRoutes = <<>>
  /\ hostApp.lateRoutes > 0
  /\ last.url = sLate /\ last.method = "GET"
  /\ last.sampled /\ last.checked
  /\ RecordedNothing

\* C8: with collectAnyPaths every request the sample gate admits is recorded,
\* registered or not, and discovery never runs.
C8_AnyPathRecorded ==
  options.collectAnyPaths =>
    /\ ~isAllowedRoutesInitialized
    /\ allowedRoutes = <<>>
    /\ (GateEvaluated /\ last.sampled) => RecordedOnce

\* C8 in every configuration whose label transform does not raise.
C8_AnyPathRecordedUnlessTransformRaises ==
  options.collectAnyPaths =>
    /\ ~isAllowedRoutesInitialized
    /\ allowedRoutes = <<>>
    /\ (GateEvaluated /\ last.sampled /\ last.thrown # "transformLabels") => RecordedOnce

\* C9: the scrape route sends the metrics payload only when no authenticate hook
\* is configured or the hook returned a truthy value; when the hook returned a
\* falsy value or raised it passes control on, and it answers nothing else.
C9_ScrapeAuthentication ==
  last.kind = "scrape" =>
    /\ last.response \in {"payload", "next"}
    /\ (last.auth = "none") <=> (options.authenticate = "null")
    /\ last.auth \in {"falsy", "throws"} => last.response = "next"
    /\ (last.response = "payload") <=> (last.auth \in {"none", "truthy"})

\* A scrape whose authenticate hook raised.
C9_Witness ==
  /\ last.kind = "scrape"
  /\ options.authenticate = "function"
  /\ last.auth = "throws"
  /\ last.response = "next"

\* Reading the internals of app, in the order getStacks reads them, raises.
ReadRaises(app) ==
  IF app.throwsOn = "routes" THEN TRUE
  ELSE IF app.routes.present THEN FALSE
  ELSE IF app.throwsOn = "_router" THEN TRUE
  ELSE IF app._router.present THEN ReduceCombine(<<>>, app._router.stack).thrown
  ELSE IF app.throwsOn = "stack" THEN TRUE
  ELSE IF app.stack.present THEN ReduceCombine(<<>>, app.stack.stack).thrown
  ELSE IF app.throwsOn = "router" THEN TRUE
  ELSE IF app.router.present THEN ReduceCombine(<<>>, app.router.stack).thrown
  ELSE FALSE

\* C10: an error raised while discovery reads the router internals never reaches
\* the request: discovery completes, with an empty catalog, whichever property
\* of the app the failing read belongs to.
C10_DiscoveryErrorsSwallowed ==
  /\ last.thrown # "extractRoutes"
  /\ (last.discovered /\ ReadRaises(hostApp)) =>
        isAllowedRoutesInitialized /\ allowedRoutes = <<>>

\* C10 for the one read the code guards: an error of app.router, or of the stack
\* behind it, leaves an initialized, empty catalog and the request unharmed.
C10_RouterErrorsSwallowed ==
  (last.discovered /\ ReadRaises(hostApp)
     /\ hostApp.throwsOn \notin {"routes", "_router", "stack"}
     /\ ~hostApp._router.present /\ ~hostApp.stack.present) =>
    /\ last.thrown # "extractRoutes"
    /\ isAllowedRoutesInitialized
    /\ allowedRoutes = <<>>

\* C11: an error of the user-supplied label transform does not abort the
\* recording: when the hook raises on an admitted request that passed the catalog
\* check, the counter is still incremented and the duration still observed,
\* once each, and no error reaches the request.
C11_TransformErrorIsolated ==
  (GateEvaluated /\ last.sampled /\ last.hook = "throws") =>
    /\ RecordedOnce
    /\ last.thrown = "none"

\* The size histogram with these buckets is to be observed for this header: the
\* bucket list is not empty and the header is present and parses to a number.
SizeExpected(buckets, header) ==
  /\ Len(buckets) # 0
  /\ header.present
  /\ ~NumberOf(header.text).nan

\* C12: for every recorded request the request-size (response-size) histogram is
\* observed, once, exactly when its bucket list is not empty and the request's
\* (response's) Content-Length header is present and parses to a number; in every
\* other case the observation is skipped, and the counter increment and the
\* duration observation happen all the same.
C12_SizeHistograms ==
  (GateEvaluated /\ last.sampled
     /\ (options.collectAnyPaths \/ isPathAllowed(allowedRoutes, last.method, LastPath))) =>
    /\ RecordedOnce
    /\ Len(last.requestLength) =
         (IF SizeExpected(options.requestLengthBuckets, last.reqHeader) THEN 1 ELSE 0)
    /\ Len(last.responseLength) =
         (IF SizeExpected(options.responseLengthBuckets, last.resHeader) THEN 1 ELSE 0)
    /\ \A i \in 1..Len(last.requestLength) : ~last.requestLength[i].value.nan
    /\ \A i \in 1..Len(last.responseLength) : ~last.responseLength[i].value.nan

\* C12 for the requests and responses whose Content-Length, when present, is a
\* decimal numeral.
C12_SizeHistogramsOfNumerals ==
  (GateEvaluated /\ last.sampled
     /\ (options.collectAnyPaths \/ isPathAllowed(allowedRoutes, last.method, LastPath))
     /\ ~NumberOf(last.reqHeader.text).nan /\ ~NumberOf(last.resHeader.text).nan) =>
    /\ RecordedOnce
    /\ Len(last.requestLength) =
         (IF SizeExpected(options.requestLengthBuckets, last.reqHeader) THEN 1 ELSE 0)
    /\ Len(last.responseLength) =
         (IF SizeExpected(options.responseLengthBuckets, last.resHeader) THEN 1 ELSE 0)

\* A step of the callback on a request that is not the scrape endpoint's.
GateStep ==
  /\ hostApp' = hostApp
  /\ last'.kind = "request"
  /\ last'.url # options.metricsPath

AppStack(app) ==
  IF app._router.present THEN app._router.stack
  ELSE IF app.stack.present THEN app.stack.stack
  ELSE app.router.stack

\* The verbs of a route node, upper-cased.
VerbsOf(layer) ==
  {ToUpperCase(layer.handlers[i].method) : i \in 1..Len(layer.handlers)} \ {""}

\* The entries of a recursive flattening of a stack: a route node gives an entry
\* for each of its verbs, its path the prefix followed by the node's own path
\* (resolved: the doubled separator where a mount prefix ends collapses); a router
\* node gives the entries of its children, its mount prefix added to the prefix.
RECURSIVE Flattened(_, _)
Flattened(stack, prefix) ==
  UNION {IF stack[i].kind = "route"
         THEN {[method |-> m, path |-> pathResolve(prefix \o stack[i].path)] :
                 m \in VerbsOf(stack[i])}
         ELSE IF stack[i].kind = "router"
         THEN Flattened(stack[i].stack, prefix \o getPathFromRegex(stack[i].regexp))
         ELSE {} : i \in 1..Len(stack)}

CatalogEntries == {allowedRoutes[i] : i \in 1..Len(allowedRoutes)}

\* C15: discovery flattens the router tree recursively: for a route nested under
\* routers at depth 0, 1, 2 or 3 the catalog holds an entry for each of its verbs,
\* with the concatenation of the enclosing mount prefixes and the route's own
\* path as its path.
C15_RecursiveFlatten ==
  (isAllowedRoutesInitialized /\ hostApp \in NestedApps) =>
    CatalogEntries = Flattened(AppStack(hostApp), <<>>)

\* C15 for the routes at depth 0 and 1.
C15_FlattenToDepthOne ==
  (isAllowedRoutesInitialized
     /\ hostApp \in {Nested4App(0), Nested4App(1), Nested5App(0), Nested5App(1)}) =>
    CatalogEntries = Flattened(AppStack(hostApp), <<>>)

\* The upper-cased verbs of a sequence of handler records, each at its first
\* occurrence, the records without a verb left out.
RECURSIVE FirstOccurrences(_, _)
FirstOccurrences(handlers, i) ==
  IF i > Len(handlers) THEN <<>>
  ELSE (IF handlers[i].method # ""
           /\ \A j \in 1..(i - 1) : handlers[j].method # handlers[i].method
        THEN <<ToUpperCase(handlers[i].method)>>
        ELSE <<>>)
       \o FirstOccurrences(handlers, i + 1)

\* The entries of one route node: one for each distinct verb.
NodeVerbs(layer) == FirstOccurrences(layer.handlers, 1)
NodeEntries(layer) ==
  [i \in 1..Len(NodeVerbs(layer)) |-> [method |-> NodeVerbs(layer)[i], path |-> layer.path]]

\* C16: within one route node the verbs are de-duplicated: whatever the sequence
\* of handler records, discovery gives one entry for each distinct upper-cased
\* verb, in the order of first occurrence, and none for a record without a verb;
\* the verbs of another node are not affected (a second node for the same path
\* gives its entry again).
C16_VerbsDeduplicatedPerNode ==
  (isAllowedRoutesInitialized /\ hostApp \in VerbApps) =>
    allowedRoutes = NodeEntries(AppStack(hostApp)[1]) \o NodeEntries(AppStack(hostApp)[2])

\* A node whose handlers are GET, POST, GET, followed by a node with GET: the
\* catalog is GET, POST and the second node's GET.
C16_Witness ==
  /\ isAllowedRoutesInitialized
  /\ hostApp = VerbApp(<<"get", "post", "get">>)
  /\ last.discovered
  /\ Len(allowedRoutes) = 3
  /\ allowedRoutes[1].method = "GET"
  /\ allowedRoutes[2].method = "POST"
  /\ allowedRoutes[3].method = "GET"

\* The catalog with its entries in the opposite order.
ReversedCatalog == [i \in 1..Len(allowedRoutes) |-> allowedRoutes[Len(allowedRoutes) + 1 - i]]

\* C17: once the catalog is initialized, the catalog check lets a request pass
\* (it is recorded) exactly when some entry has the request's method and its
\* normalized path; an entry with the path and another verb, or the verb and
\* another path, does not count, and the order of the entries does not matter.
C17_ExactLookup ==
  (GateEvaluated /\ last.checked /\ isAllowedRoutesInitialized) =>
    /\ IF \E e \in CatalogEntries : e.method = last.method /\ e.path = LastPath
       THEN RecordedOnce
       ELSE RecordedNothing
    /\ \A req \in DiscoveryRequests :
         isPathAllowed(ReversedCatalog, req.method, req.originalUrl)
           = (\E e \in CatalogEntries : e.method = req.method /\ e.path = req.originalUrl)

\* A request rejected although the catalog holds its path, for another verb, and
\* its verb, for another path.
C17_Witness ==
  /\ GateEvaluated /\ last.checked /\ isAllowedRoutesInitialized
  /\ last.method = "POST" /\ last.url = sApiItems
  /\ \E e \in CatalogEntries : e.path = LastPath /\ e.method = "GET"
  /\ \E e \in CatalogEntries : e.method = "POST" /\ e.path # LastPath
  /\ RecordedNothing

\* C18: a request, not the scrape endpoint's, that the sample gate rejects
\* changes nothing but the sample counter: no discovery (the flag and
\* allowedRoutes are as before), no counter increment, no histogram observation.
C18_RejectedChangesCounterOnly ==
  [][(GateStep /\ ~last'.sampled) =>
       /\ sampleCount' # sampleCount
       /\ UNCHANGED <<allowedRoutes, isAllowedRoutesInitialized, requestCount,
                      requestDuration, options>>
       /\ ~last'.discovered /\ ~last'.checked
       /\ last'.inc = <<>> /\ last'.observe = <<>>
       /\ last'.requestLength = <<>> /\ last'.responseLength = <<>>]_vars

\* A request for a registered route rejected by the gate while the catalog is not
\* initialized: discovery raised on the admitted requests before it.
C18_Witness ==
  /\ GateEvaluated
  /\ ~last.sampled
  /\ sampleCount > options.sampleRate
  /\ last.url = sUsers42
  /\ ~isAllowedRoutesInitialized
  /\ ~options.collectAnyPaths

\* C19: the flag is set only after a complete discovery pass: a pass that an
\* error aborts leaves the flag false and allowedRoutes as it was, and the next
\* admitted request runs discovery again; allowedRoutes is empty in every state
\* whose flag is false.
C19_FlagAfterCompletePass ==
  [][/\ allowedRoutes # <<>> => isAllowedRoutesInitialized
     /\ allowedRoutes' # <<>> => isAllowedRoutesInitialized'
     /\ (GateStep /\ last'.thrown = "extractRoutes") =>
          /\ last'.discovered
          /\ ~isAllowedRoutesInitialized'
          /\ allowedRoutes' = allowedRoutes
     /\ (GateStep /\ last'.sampled /\ ~options.collectAnyPaths
           /\ ~isAllowedRoutesInitialized) =>
          last'.discovered
     /\ (~isAllowedRoutesInitialized /\ isAllowedRoutesInitialized') =>
          (GateStep /\ last'.discovered /\ last'.thrown # "extractRoutes")]_vars

\* A second admitted request on a host whose discovery raised for the first: it
\* ran discovery again, which raised again.
C19_Witness ==
  /\ GateEvaluated
  /\ sampleCount = 2
  /\ last.sampled
  /\ last.discovered
  /\ last.thrown = "extractRoutes"
  /\ ~isAllowedRoutesInitialized
  /\ allowedRoutes = <<>>

====
